---- MODULE Spec2Model ----
(***************************************************************************)
(* The agent execution engine (ReActEngine.execute), the LLM gateway       *)
(* (LLMClient.chat) and the tool executor (ToolExecutor.execute) of        *)
(* agent-architect, as a state machine.  One state per await point of      *)
(* execute; every action resolves the await that is outstanding and runs   *)
(* the synchronous code up to the next one.                                *)
(***************************************************************************)
EXTENDS Integers, Sequences, FiniteSets, TLC

\* ------------------------------------------------------------------ bounds

\* agentConfig.maxIterations ranges over 1..MaxIter
MaxIter == 2
\* total number of tool calls the model may request over one execution
MaxCalls == 2
\* the same, per execution, when two executions run concurrently
PairCalls == 1
\* the number of times the authentication state changes while the page is mounted
MaxAuthChanges == 3
MaxMsgs == 3

\* ---------------------------------------------------------- JS-like values

NULL == "<null>"
UNDEFINED == "<undefined>"

\* an optional value: None is undefined, Some(x) is x
None == << >>
Some(x) == << x >>

\* the outcome of a call: it returns a value or throws an Error with a message
Return(v) == [kind |-> "return", value |-> v]
Throw(m) == [kind |-> "throw", msg |-> m]

\* String.prototype.startsWith over the identifiers of the model: s starts
\* with p iff s is p followed by some tail
Tails == {"", "4", "mini", "2", "3-haiku-20240307"}
StartsWith(s, p) == \E t \in Tails : s = p \o t

\* ------------------------------------------------------------ ToolExecutor

\* a JS argument object: null/undefined, or an object with some fields
NullArgs == [isNull |-> TRUE, fields |-> << >>]
Obj(f) == [isNull |-> FALSE, fields |-> f]
\* args.<name>: a TypeError on null, undefined on a missing field
Field(args, name) ==
    IF args.isNull
    THEN Throw("Cannot read properties of null (reading '" \o name \o "')")
    ELSE Return(IF name \in DOMAIN args.fields THEN args.fields[name] ELSE UNDEFINED)

\* what the backend of a tool does when it is asked
BackendBehaviours == {"unconfigured", "ok", "notOk", "reject", "malformed"}

\* a ToolResult, with the number of backend requests made to produce it
ToolResult(success, data, error, n) ==
    [success |-> success, data |-> data, error |-> error, requests |-> n]

webSearch(query, be) ==
    IF be = "unconfigured"
    THEN Return(ToolResult(TRUE, "fallback:" \o query, UNDEFINED, 0))
    ELSE IF be = "reject"
    THEN Return(ToolResult(FALSE, UNDEFINED, "fetch failed", 1))
    ELSE IF be = "notOk"
    THEN Return(ToolResult(FALSE, UNDEFINED, "Perplexity API error: Bad Gateway", 1))
    ELSE IF be = "malformed"
    THEN Return(ToolResult(FALSE, UNDEFINED,
                "Cannot read properties of undefined (reading '0')", 1))
    ELSE Return(ToolResult(TRUE, "answer:" \o query, UNDEFINED, 1))

sendEmail(to, subject, body) ==
    Return(ToolResult(TRUE, "Email queued to " \o to, UNDEFINED, 0))

databaseQuery(query) ==
    Return(ToolResult(TRUE, "query:" \o query, UNDEFINED, 0))

httpRequest(args, be) ==
    IF args.isNull
    THEN Return(ToolResult(FALSE, UNDEFINED,
                "Cannot read properties of null (reading 'url')", 0))
    ELSE IF be = "reject"
    THEN Return(ToolResult(FALSE, UNDEFINED, "fetch failed", 1))
    ELSE IF be = "malformed"
    THEN Return(ToolResult(FALSE, UNDEFINED, "body stream error", 1))
    ELSE Return(ToolResult(be # "notOk", "status:" \o be, UNDEFINED, 1))

slackNotify(channel, message) ==
    Return(ToolResult(TRUE, "Notification queued for channel " \o channel, UNDEFINED, 0))

\* the switch of ToolExecutor.execute: the arguments are read before the
\* call, so a null args throws here, inside the try
Dispatch(toolName, args, be) ==
    CASE toolName = "web_search" ->
           LET q == Field(args, "query")
           IN IF q.kind = "throw" THEN q ELSE webSearch(q.value, be)
      [] toolName = "send_email" ->
           LET t == Field(args, "to")
           IN IF t.kind = "throw" THEN t
              ELSE sendEmail(t.value, Field(args, "subject").value, Field(args, "body").value)
      [] toolName = "database_query" ->
           LET q == Field(args, "query")
           IN IF q.kind = "throw" THEN q ELSE databaseQuery(q.value)
      [] toolName = "http_request" -> httpRequest(args, be)
      [] toolName = "slack_notify" ->
           LET c == Field(args, "channel")
           IN IF c.kind = "throw" THEN c
              ELSE slackNotify(c.value, Field(args, "message").value)
      [] OTHER -> Throw("Unknown tool: " \o toolName)

\* a faulty variant of ToolExecutorExecute: the try/catch is missing
ToolExecutorExecuteNoCatch(toolName, args, be) == Dispatch(toolName, args, be)

\* ToolExecutor.execute: whatever the switch throws becomes a failed ToolResult
ToolExecutorExecute(toolName, args, be) ==
    LET r == Dispatch(toolName, args, be)
    IN IF r.kind = "throw"
       THEN Return(ToolResult(FALSE, UNDEFINED, r.msg, 0))
       ELSE r

\* JSON.stringify of a ToolResult: undefined fields are left out
Bool(b) == IF b THEN "true" ELSE "false"
Stringify(result) ==
    "{\"success\":" \o Bool(result.success)
      \o (IF result.data = UNDEFINED THEN "" ELSE ",\"data\":\"" \o result.data \o "\"")
      \o (IF result.error = UNDEFINED THEN "" ELSE ",\"error\":\"" \o result.error \o "\"")
      \o "}"

\* --------------------------------------------------------------- LLMClient

\* x || d for an optional number: a missing value and 0 both give d
OrNum(x, d) == IF x = None \/ x[1] = 0 THEN d ELSE x[1]
\* x || d for an optional string: a missing value and '' both give d
OrStr(x, d) == IF x = None \/ x[1] = "" THEN d ELSE x[1]

\* JSON.parse of the arguments text of an OpenAI tool call
ParseArguments(a) ==
    IF a.wellformed THEN Return(a.value)
    ELSE Throw("Unexpected token in JSON at position 0")

RECURSIVE MapOpenAICalls(_)
MapOpenAICalls(tcs) ==
    IF tcs = << >> THEN Return(<< >>)
    ELSE LET a == ParseArguments(Head(tcs).arguments)
             rest == MapOpenAICalls(Tail(tcs))
         IN IF a.kind = "throw" THEN a
            ELSE IF rest.kind = "throw" THEN rest
            ELSE Return(<< [id |-> Head(tcs).id, name |-> Head(tcs).name,
                            arguments |-> a.value] >> \o rest.value)

\* LLMClient.chatOpenAI; out is what openai.chat.completions.create does
chatOpenAI(messages, model, tools, out) ==
    IF out.kind = "throw" THEN out
    ELSE LET message == out.value.message
             usage == out.value.usage
             toolCalls == IF message.tool_calls = None THEN Return(None)
                          ELSE LET m == MapOpenAICalls(message.tool_calls[1])
                               IN IF m.kind = "throw" THEN m ELSE Return(Some(m.value))
         IN IF toolCalls.kind = "throw" THEN toolCalls
            ELSE Return([content |-> OrStr(message.content, ""),
                         toolCalls |-> toolCalls.value,
                         usage |-> [promptTokens |->
                                      IF usage = None THEN 0
                                      ELSE OrNum(usage[1].prompt_tokens, 0),
                                    completionTokens |->
                                      IF usage = None THEN 0
                                      ELSE OrNum(usage[1].completion_tokens, 0),
                                    totalTokens |->
                                      IF usage = None THEN 0
                                      ELSE OrNum(usage[1].total_tokens, 0)],
                         model |-> out.value.model])

\* the blocks of an Anthropic response of one type, in order
RECURSIVE BlocksOfType(_, _)
BlocksOfType(blocks, type) ==
    IF blocks = << >> THEN << >>
    ELSE (IF Head(blocks).type = type THEN << Head(blocks) >> ELSE << >>)
           \o BlocksOfType(Tail(blocks), type)

\* a faulty variant of TurnMessages: the system messages are sent as turns too
TurnMessagesUnfiltered(messages) ==
    [i \in 1..Len(messages) |->
       [role |-> IF messages[i].role = "assistant" THEN "assistant" ELSE "user",
        content |-> messages[i].content]]

\* chatAnthropic: messages.find((m) => m.role === 'system')?.content || ''
SystemMessage(messages) ==
    LET found == SelectSeq(messages, LAMBDA m : m.role = "system")
    IN IF found = << >> THEN "" ELSE OrStr(Some(found[1].content), "")

\* chatAnthropic: userMessages, the messages that are not system messages,
\* each with role 'assistant' or 'user' and its content
TurnMessages(messages) ==
    LET kept == SelectSeq(messages, LAMBDA m : m.role # "system")
    IN [i \in 1..Len(kept) |->
          [role |-> IF kept[i].role = "assistant" THEN "assistant" ELSE "user",
           content |-> kept[i].content]]

\* chatAnthropic: the tool definitions in the provider's field names
AnthropicTools(ts) ==
    [i \in 1..Len(ts) |->
       [name |-> ts[i].function.name,
        description |-> ts[i].function.description,
        input_schema |-> ts[i].function.parameters]]

\* chatAnthropic: the request given to anthropic.messages.create (temperature
\* and max_tokens, which are passed through, are left out)
AnthropicRequest(messages, model, ts) ==
    LET converted == AnthropicTools(ts)
    IN [model |-> model,
        system |-> SystemMessage(messages),
        messages |-> TurnMessages(messages),
        tools |-> IF Len(converted) > 0 THEN converted ELSE UNDEFINED]

\* LLMClient.chatAnthropic; out is what anthropic.messages.create does
chatAnthropic(messages, model, tools, out) ==
    IF out.kind = "throw" THEN out
    ELSE LET texts == BlocksOfType(out.value.content, "text")
             toolUseContent == BlocksOfType(out.value.content, "tool_use")
             toolCalls == [i \in 1..Len(toolUseContent) |->
                             [id |-> toolUseContent[i].id,
                              name |-> toolUseContent[i].name,
                              arguments |-> toolUseContent[i].input]]
             usage == out.value.usage
         IN Return([content |-> IF texts = << >> THEN "" ELSE texts[1].text,
                    toolCalls |-> IF Len(toolCalls) > 0 THEN Some(toolCalls) ELSE None,
                    usage |-> [promptTokens |-> usage.input_tokens,
                               completionTokens |-> usage.output_tokens,
                               totalTokens |-> usage.input_tokens + usage.output_tokens],
                    model |-> out.value.model])

\* a faulty variant of Provider: every unknown identifier goes to the first provider
ProviderDefaultOpenAI(model) ==
    IF StartsWith(model, "claude-") THEN "anthropic" ELSE "openai"

\* the provider LLMClient.chat routes a model identifier to
Provider(model) ==
    IF StartsWith(model, "gpt-") \/ StartsWith(model, "o1-") THEN "openai"
    ELSE IF StartsWith(model, "claude-") THEN "anthropic"
    ELSE "none"

\* LLMClient.chat: the error of either branch is logged and thrown again.
\* out maps each provider to what its API does if it is called; contacted is
\* the set of providers that were called
chat(messages, model, tools, out) ==
    LET p == Provider(model)
    IN IF p = "openai"
       THEN [contacted |-> {"openai"},
             result |-> chatOpenAI(messages, model, tools, out.openai)]
       ELSE IF p = "anthropic"
       THEN [contacted |-> {"anthropic"},
             result |-> chatAnthropic(messages, model, tools, out.anthropic)]
       ELSE [contacted |-> {}, result |-> Throw("Unsupported model: " \o model)]

\* ------------------------------------------------------------- ReActEngine

\* ReActEngine.TOKEN_COSTS, in units of 10^-8 dollars per token
TOKEN_COSTS ==
    [m \in {"gpt-4-turbo-preview", "gpt-4", "gpt-3.5-turbo", "claude-3-opus-20240229",
            "claude-3-sonnet-20240229", "claude-3-haiku-20240307"} |->
       CASE m = "gpt-4-turbo-preview" -> [input |-> 1000, output |-> 3000]
         [] m = "gpt-4" -> [input |-> 3000, output |-> 6000]
         [] m = "gpt-3.5-turbo" -> [input |-> 50, output |-> 150]
         [] m = "claude-3-opus-20240229" -> [input |-> 1500, output |-> 7500]
         [] m = "claude-3-sonnet-20240229" -> [input |-> 300, output |-> 1500]
         [] m = "claude-3-haiku-20240307" -> [input |-> 25, output |-> 125]]

\* a faulty variant of calculateCost: the two rates are applied the other way round
calculateCostSwapped(model, promptTokens, completionTokens) ==
    LET costs == IF model \in DOMAIN TOKEN_COSTS THEN TOKEN_COSTS[model]
                 ELSE [input |-> 1000, output |-> 3000]
    IN promptTokens * costs.output + completionTokens * costs.input

\* a faulty variant of calculateCost: the completion tokens are subtracted
calculateCostNet(model, promptTokens, completionTokens) ==
    LET costs == IF model \in DOMAIN TOKEN_COSTS THEN TOKEN_COSTS[model]
                 ELSE [input |-> 1000, output |-> 3000]
    IN promptTokens * costs.input - completionTokens * costs.output

\* ReActEngine.calculateCost
calculateCost(model, promptTokens, completionTokens) ==
    LET costs == IF model \in DOMAIN TOKEN_COSTS THEN TOKEN_COSTS[model]
                 ELSE [input |-> 1000, output |-> 3000]
    IN promptTokens * costs.input + completionTokens * costs.output

\* JSON.parse of the schema text of an attached tool
ParseSchema(schema) ==
    IF schema.wellformed THEN Return(schema.value)
    ELSE Throw("Unexpected token in JSON at position 0")

ReActText == "\n\nYou are an AI agent using the ReAct (Reasoning + Acting) pattern."
FinalText == "\n\nWhen you have the final answer, respond directly without calling any tools."

RECURSIVE ToolDescriptions(_)
ToolDescriptions(ts) ==
    IF ts = << >> THEN Return("")
    ELSE LET s == ParseSchema(Head(ts).schema)
             rest == ToolDescriptions(Tail(ts))
         IN IF s.kind = "throw" THEN s
            ELSE IF rest.kind = "throw" THEN rest
            ELSE Return("- " \o Head(ts).name \o ": " \o s.value.description
                          \o (IF Tail(ts) = << >> THEN "" ELSE "\n") \o rest.value)

\* ReActEngine.buildSystemPrompt
buildSystemPrompt(basePrompt, ts) ==
    LET d == ToolDescriptions(ts)
    IN IF d.kind = "throw" THEN d
       ELSE Return(basePrompt \o ReActText \o "\n\nAvailable tools:\n" \o d.value \o FinalText)

\* agentConfig.tools.map((t) => JSON.parse(t.schema))
RECURSIVE ParseTools(_)
ParseTools(ts) ==
    IF ts = << >> THEN Return(<< >>)
    ELSE LET s == ParseSchema(Head(ts).schema)
             rest == ParseTools(Tail(ts))
         IN IF s.kind = "throw" THEN s
            ELSE IF rest.kind = "throw" THEN rest
            ELSE Return(<< s.value >> \o rest.value)

\* a faulty variant of Step: the step number is the 0-based index of the iteration
StepZeroBased(n, type, reasoning, action, observation) ==
    [stepNumber |-> n - 1, stepType |-> type, reasoning |-> reasoning,
     action |-> action, observation |-> observation]

\* an ExecutionStep (the timestamp is left out)
Step(n, type, reasoning, action, observation) ==
    [stepNumber |-> n, stepType |-> type, reasoning |-> reasoning,
     action |-> action, observation |-> observation]

\* the row ReActEngine.logStep inserts: the fourth parameter goes to the
\* reasoning column, the fifth, JSON text, to the action column
LogRow(stepNumber, stepType, reasoning, action) ==
    [step_number |-> stepNumber, step_type |-> stepType, reasoning |-> reasoning,
     action |-> action, observation |-> NULL]

TimeoutText == "Execution timed out"
MaxIterationsText == "Maximum iterations reached without finding a final answer"

\* Date.now() - startTime at a timeout check can read these, in milliseconds.
\* (The executionTimeMs and timestamp fields, which no decision reads, are
\* left out of the model.)
ClockReadings == {0, 1000, 1001}

\* the timeout check of the loop: elapsed > agentConfig.timeoutSeconds * 1000
TimeoutExceeded(elapsed, timeoutSeconds) == elapsed > timeoutSeconds * 1000

\* ------------------------------------------------- inputs and collaborators

SearchTool ==
    [id |-> "t1", name |-> "web_search",
     schema |-> [wellformed |-> TRUE,
                 value |-> [name |-> "web_search", description |-> "Search the web"]]]
BrokenTool ==
    [id |-> "t2", name |-> "broken",
     schema |-> [wellformed |-> FALSE, value |-> [name |-> "", description |-> ""]]]

Models == {"gpt-4", "o1-mini", "claude-3-haiku-20240307", "llama-2", "gpt4"}
TimeoutValues == {0, 1}
ToolLists == {<< SearchTool >>, << SearchTool, BrokenTool >>}

\* the agent configurations and inputs execute is called with
Configs ==
    [id : {"agent"}, systemPrompt : {"Be helpful."}, model : Models,
     maxIterations : 1..MaxIter, timeoutSeconds : TimeoutValues, tools : ToolLists,
     input : {"question"}]

\* one tool call as the model requests it; jsonOk says whether the text of
\* its arguments parses (providers that send text)
CallChoices ==
    { [name |-> "web_search", arguments |-> Obj([query |-> "q"]), jsonOk |-> TRUE],
      [name |-> "bogus", arguments |-> NullArgs, jsonOk |-> TRUE],
      [name |-> "web_search", arguments |-> Obj([query |-> "q"]), jsonOk |-> FALSE] }

\* the text and the usage of one model turn
TurnKinds ==
    { [text |-> Some("Answer A"), prompt |-> 2, completion |-> 1, total |-> Some(3),
       noCalls |-> None],
      [text |-> None, prompt |-> 1, completion |-> 1, total |-> None,
       noCalls |-> Some(<< >>)] }

SeqsUpTo(S, n) == UNION { [1..k -> S] : k \in 0..n }

\* the same turn in the shape of each provider's API
OpenAIResponse(k, calls) ==
    [message |->
       [content |-> k.text,
        tool_calls |->
          IF calls = << >> THEN k.noCalls
          ELSE Some([i \in 1..Len(calls) |->
                       [id |-> "call", name |-> calls[i].name,
                        arguments |-> [wellformed |-> calls[i].jsonOk,
                                       value |-> calls[i].arguments]]])],
     usage |-> Some([prompt_tokens |-> Some(k.prompt),
                     completion_tokens |-> Some(k.completion),
                     total_tokens |-> k.total]),
     model |-> "m"]

AnthropicResponse(k, calls) ==
    [content |->
       (IF k.text = None THEN << >> ELSE << [type |-> "text", text |-> k.text[1]] >>)
         \o [i \in 1..Len(calls) |->
               [type |-> "tool_use", id |-> "call", name |-> calls[i].name,
                input |-> calls[i].arguments]],
     usage |-> [input_tokens |-> k.prompt, output_tokens |-> k.completion],
     model |-> "m"]

\* what the providers do on one gateway call: both fail, or both answer with
\* the same turn, requesting at most n tool calls
ProviderOutcomes(n) ==
    { [openai |-> Throw("network error"), anthropic |-> Throw("network error")] }
      \cup { [openai |-> Return(OpenAIResponse(k, calls)),
              anthropic |-> Return(AnthropicResponse(k, calls))] :
               k \in TurnKinds, calls \in SeqsUpTo(CallChoices, n) }

DbError == "connection terminated"

\* the DashboardPage component as it is mounted: agents [], loading true, no
\* effect run yet, no request made
MountedDash(isLoaded, user) ==
    [isLoaded |-> isLoaded, user |-> user, agents |-> << >>, loading |-> TRUE,
     deps |-> None, pending |-> 0, listCalls |-> 0, changes |-> 0]
\* no page is mounted
NoDash == MountedDash(FALSE, NULL)

\* no call of the executor on its own is under way
NoProbe == [toolName |-> "", args |-> NullArgs, be |-> "ok", outcome |-> None]

\* the message lists and tool definitions chatAnthropic is given on its own
\* (of a message only the role and the content are read)
WireRoles == {"system", "user", "assistant", "function"}
WireContents == {"", "a", "b"}
WireMessages == [role : WireRoles, content : WireContents]
WireTool(n) ==
    [type |-> "function",
     function |-> [name |-> n, description |-> "does " \o n, parameters |-> "schema of " \o n]]
WireToolLists == { << >>, << WireTool("web_search") >>,
                   << WireTool("web_search"), WireTool("send_email") >> }

\* no call of chatAnthropic on its own is under way
NoWire == [messages |-> << >>, tools |-> << >>, request |-> None]

\* ---------------------------------------------------------------- the state

VARIABLES
    cfg,              \* agentConfig and input of the call
    pc,               \* the await execute is at, or returned / rejected
    messages,         \* the conversation
    tools,            \* the parsed tool schemas
    iteration,
    finalAnswer,
    status,
    steps,
    totalTokensUsed,
    totalCost,
    response,         \* the gateway response of the iteration, Some or None
    tcIdx,            \* the index of the tool call of the for-of loop
    caught,           \* the message of the error the catch handler caught
    result,           \* the ExecutionResult returned, Some or None
    dbExec,           \* the executions row of this execution, Some or None
    dbLogs,           \* the execution_logs rows of this execution
    dbUsage,          \* the usage_tracking rows of this execution
    gwLog,            \* history: the gateway calls made and how each ended
    toolLog,          \* history: the executor invocations and how each ended
    timeoutAt,        \* history: the iteration whose timeout check fired, or 0
    dbFailed,         \* history: the database writes that threw
    probe,            \* a call of ToolExecutor.execute on its own: input, outcome
    peer,             \* a second execution under way, suspended at an await: Some or None
    dash,             \* the DashboardPage component: hooks, state, requests
    wire              \* a call of LLMClient.chatAnthropic on its own: input, request

engineVars == << messages, tools, iteration, finalAnswer, status, steps,
                 totalTokensUsed, totalCost, response, tcIdx >>
dbVars == << dbExec, dbLogs, dbUsage >>
histVars == << gwLog, toolLog, timeoutAt >>
vars == << cfg, pc, engineVars, caught, result, dbVars,
           histVars, dbFailed, probe, peer, dash, wire >>

Init ==
    /\ cfg \in Configs
    /\ pc = "insert"
    /\ messages = << >>
    /\ tools = << >>
    /\ iteration = 0
    /\ finalAnswer = ""
    /\ status = "success"
    /\ steps = << >>
    /\ totalTokensUsed = 0
    /\ totalCost = 0
    /\ response = None
    /\ tcIdx = 0
    /\ wire = NoWire
    /\ caught = NULL
    /\ result = None
    /\ dbExec = None
    /\ dbLogs = << >>
    /\ dbUsage = << >>
    /\ gwLog = << >>
    /\ toolLog = << >>
    /\ timeoutAt = 0
    /\ dbFailed = {}
    /\ probe = NoProbe
    /\ peer = None
    /\ dash = NoDash

\* db.query may reject; with two executions under way the database is taken
\* to answer every write
WritesMayThrow == peer = None

\* a faulty variant of Catch: the message of the error is replaced
CatchGeneric(msg) ==
    /\ caught' = "Execution failed"
    /\ pc' = "errUpdate"

\* the catch handler up to its await: the error is caught and the
\* UPDATE ... status = 'error' is issued
Catch(msg) ==
    /\ caught' = msg
    /\ pc' = "errUpdate"

\* INSERT INTO executions ... 'running', then the initial messages and the
\* parsed tools (part of the same try block)
InsertExecution ==
    /\ pc = "insert"
    /\ \/ /\ WritesMayThrow
          /\ dbFailed' = dbFailed \cup {"insert"}
          /\ Catch(DbError)
          /\ UNCHANGED << wire, probe, peer, dash, cfg, engineVars, result, dbVars, histVars >>
       \/ /\ dbExec' = Some([status |-> "running", output |-> NULL, iterations |-> 0,
                             tokens_used |-> 0, cost_usd |-> 0, error_message |-> NULL,
                             completed |-> FALSE])
          /\ LET prompt == buildSystemPrompt(cfg.systemPrompt, cfg.tools)
                 parsed == ParseTools(cfg.tools)
             IN IF prompt.kind = "throw" \/ parsed.kind = "throw"
                THEN /\ Catch(IF prompt.kind = "throw" THEN prompt.msg ELSE parsed.msg)
                     /\ UNCHANGED << engineVars >>
                ELSE /\ messages' = << [role |-> "system", content |-> prompt.value,
                                        name |-> UNDEFINED],
                                       [role |-> "user", content |-> cfg.input,
                                        name |-> UNDEFINED] >>
                     /\ tools' = parsed.value
                     /\ iteration' = 0
                     /\ finalAnswer' = ""
                     /\ status' = "success"
                     /\ pc' = "loop"
                     /\ UNCHANGED << steps, totalTokensUsed, totalCost, response, tcIdx,
                                     caught >>
          /\ UNCHANGED << wire, probe, peer, dash, cfg, result, dbLogs, dbUsage, histVars, dbFailed >>

\* a faulty variant of LoopContinues: the bound is inclusive
LoopContinuesInclusive(it, maxIterations) == it <= maxIterations

\* the condition of the while loop
LoopContinues(it, maxIterations) == it < maxIterations

\* the loop condition, iteration++ and the timeout check
LoopHead ==
    /\ pc = "loop"
    /\ IF LoopContinues(iteration, cfg.maxIterations)
       THEN /\ iteration' = iteration + 1
            /\ \E elapsed \in ClockReadings :
                 IF TimeoutExceeded(elapsed, cfg.timeoutSeconds)
                 THEN /\ status' = "timeout"
                      /\ finalAnswer' = TimeoutText
                      /\ timeoutAt' = iteration + 1
                      /\ pc' = "postLoop"
                 ELSE /\ pc' = "chat"
                      /\ UNCHANGED << status, finalAnswer, timeoutAt >>
       ELSE /\ pc' = "postLoop"
            /\ UNCHANGED << iteration, status, finalAnswer, timeoutAt >>
    /\ UNCHANGED << wire, probe, peer, dash, cfg, messages, tools, steps, totalTokensUsed, totalCost, response,
                    tcIdx, caught, result, dbVars, gwLog, toolLog,
                    dbFailed >>

\* !response.toolCalls || response.toolCalls.length === 0
NoToolCalls(r) == r.toolCalls = None \/ Len(r.toolCalls[1]) = 0

\* the tool calls the model may still request in this execution
CallsLeft == (IF peer = None THEN MaxCalls ELSE PairCalls) - Len(toolLog)

\* the gateway call settles: accumulation, then the final step or the
\* reasoning step of the first tool call
ChatReturns ==
    /\ pc = "chat"
    /\ \E out \in ProviderOutcomes(CallsLeft) :
         LET c == chat(messages, cfg.model, tools, out)
             r == c.result
         IN /\ gwLog' = Append(gwLog, [iteration |-> iteration, input |-> messages,
                                       contacted |-> c.contacted, outcome |-> r])
            /\ IF r.kind = "throw"
               THEN /\ Catch(r.msg)
                    /\ UNCHANGED << engineVars >>
               ELSE /\ response' = Some(r.value)
                    /\ totalTokensUsed' = totalTokensUsed + r.value.usage.totalTokens
                    /\ totalCost' = totalCost
                         + calculateCost(cfg.model, r.value.usage.promptTokens,
                                         r.value.usage.completionTokens)
                    /\ IF NoToolCalls(r.value)
                       THEN /\ finalAnswer' = r.value.content
                            /\ steps' = Append(steps, Step(iteration, "final",
                                                 r.value.content, None, UNDEFINED))
                            /\ tcIdx' = 0
                            /\ pc' = "logFinal"
                       ELSE /\ steps' = Append(steps, Step(iteration, "reasoning",
                                                 r.value.content, None, UNDEFINED))
                            /\ tcIdx' = 1
                            /\ pc' = "logReasoning"
                            /\ UNCHANGED finalAnswer
                    /\ UNCHANGED << messages, tools, iteration, status, caught >>
    /\ UNCHANGED << wire, probe, peer, dash, cfg, result, dbVars, toolLog, timeoutAt, dbFailed >>

\* a faulty variant of ToolCall: the loop always reads the first tool call
ToolCallFirst == response[1].toolCalls[1][1]

\* the tool call the for-of loop is at
ToolCall == response[1].toolCalls[1][tcIdx]

\* a logStep insert throws: the error reaches the catch handler
LogStepThrows ==
    /\ pc \in {"logFinal", "logReasoning", "logAction", "logObservation"}
    /\ WritesMayThrow
    /\ dbFailed' = dbFailed \cup {pc}
    /\ Catch(DbError)
    /\ UNCHANGED << wire, probe, peer, dash, cfg, engineVars, result, dbVars, histVars >>

\* logStep of the final step, then break
LogFinal ==
    /\ pc = "logFinal"
    /\ dbLogs' = Append(dbLogs, LogRow(iteration, "final", response[1].content, None))
    /\ pc' = "postLoop"
    /\ UNCHANGED << wire, probe, peer, dash, cfg, engineVars, caught, result, dbExec,
                    dbUsage, histVars, dbFailed >>

\* logStep of the reasoning step, then the action step is pushed
LogReasoning ==
    /\ pc = "logReasoning"
    /\ dbLogs' = Append(dbLogs, LogRow(iteration, "reasoning", response[1].content, None))
    /\ steps' = Append(steps, Step(iteration, "action", UNDEFINED,
                         Some([tool |-> ToolCall.name, arguments |-> ToolCall.arguments]),
                         UNDEFINED))
    /\ pc' = "logAction"
    /\ UNCHANGED << wire, probe, peer, dash, cfg, messages, tools, iteration, finalAnswer, status, totalTokensUsed,
                    totalCost, response, tcIdx, caught, result,
                    dbExec, dbUsage, histVars, dbFailed >>

\* logStep of the action step, then the executor is invoked
LogAction ==
    /\ pc = "logAction"
    /\ dbLogs' = Append(dbLogs, LogRow(iteration, "action", NULL,
                          Some([tool |-> ToolCall.name, arguments |-> ToolCall.arguments])))
    /\ pc' = "tool"
    /\ UNCHANGED << wire, probe, peer, dash, cfg, engineVars, caught, result, dbExec,
                    dbUsage, histVars, dbFailed >>

\* the backends the engine's tool calls meet
EngineBackends == {"ok", "reject"}

\* a faulty variant of InvokeTool: the engine's try/catch around the executor is missing
InvokeToolNoCatch(outcome) ==
    IF outcome.kind = "throw" THEN outcome ELSE Return(Stringify(outcome.value))

\* the try/catch around toolExecutor.execute: the observation text
InvokeTool(outcome) ==
    IF outcome.kind = "throw" THEN Return("Error: " \o outcome.msg)
    ELSE Return(Stringify(outcome.value))

\* the executor call settles (it resolves with a ToolResult, or rejects), then
\* the observation step is pushed
ToolReturns ==
    /\ pc = "tool"
    /\ \E outcome \in { Throw("executor failure") }
                        \cup { ToolExecutorExecute(ToolCall.name, ToolCall.arguments, be) :
                                 be \in EngineBackends } :
         LET o == InvokeTool(outcome)
         IN /\ toolLog' = Append(toolLog, [iteration |-> iteration, index |-> tcIdx,
                                           name |-> ToolCall.name, outcome |-> outcome])
            /\ IF o.kind = "throw"
               THEN /\ Catch(o.msg)
                    /\ UNCHANGED steps
               ELSE /\ steps' = Append(steps, Step(iteration, "observation", UNDEFINED,
                                                   None, o.value))
                    /\ pc' = "logObservation"
                    /\ UNCHANGED << caught >>
    /\ UNCHANGED << wire, probe, peer, dash, cfg, messages, tools, iteration, finalAnswer, status, totalTokensUsed,
                    totalCost, response, tcIdx, result, dbVars, gwLog, timeoutAt,
                    dbFailed >>

\* the observation of the tool call the loop is at: the step just pushed
Observation == steps[Len(steps)].observation

\* a faulty variant of ToolMessages: the tool result is pushed as a system message
ToolMessagesAsSystem(content, observation, toolName) ==
    << [role |-> "assistant", content |-> content, name |-> UNDEFINED],
       [role |-> "system", content |-> observation, name |-> toolName] >>

\* a faulty variant of ToolMessages: only the tool result is pushed
ToolMessagesResultOnly(content, observation, toolName) ==
    << [role |-> "function", content |-> observation, name |-> toolName] >>

\* the two messages pushed after a tool call
ToolMessages(content, observation, toolName) ==
    << [role |-> "assistant", content |-> content, name |-> UNDEFINED],
       [role |-> "function", content |-> observation, name |-> toolName] >>

\* a faulty variant of AfterToolCall: the calls after the first are dropped
AfterToolCallStop(idx, n) == 0

\* a faulty variant of AfterToolCall: the loop stays at the call it has just made
AfterToolCallRepeat(idx, n) == IF idx < n THEN idx ELSE 0

\* the for-of loop over response.toolCalls: the index of the next tool call,
\* or 0 when the call just made was the last
AfterToolCall(idx, n) == IF idx < n THEN idx + 1 ELSE 0

\* logStep of the observation step, the two messages, then the next tool
\* call's reasoning step or the next iteration
LogObservation ==
    /\ pc = "logObservation"
    /\ dbLogs' = Append(dbLogs, LogRow(iteration, "observation", Observation, None))
    /\ messages' = messages \o ToolMessages(response[1].content, Observation, ToolCall.name)
    /\ IF AfterToolCall(tcIdx, Len(response[1].toolCalls[1])) # 0
       THEN /\ tcIdx' = AfterToolCall(tcIdx, Len(response[1].toolCalls[1]))
            /\ steps' = Append(steps, Step(iteration, "reasoning", response[1].content,
                                           None, UNDEFINED))
            /\ pc' = "logReasoning"
       ELSE /\ tcIdx' = 0
            /\ pc' = "loop"
            /\ UNCHANGED steps
    /\ UNCHANGED << wire, probe, peer, dash, cfg, tools, iteration, finalAnswer, status, totalTokensUsed, totalCost,
                    response, caught, result, dbExec, dbUsage,
                    histVars, dbFailed >>

\* a faulty variant of PostLoopStatus: the bound is strict
PostLoopStatusStrict(it, maxIterations, st) ==
    IF it > maxIterations /\ st = "success" THEN "max_iterations" ELSE st

\* a faulty variant of PostLoopStatus: the check does not look at the status
PostLoopStatusUnguarded(it, maxIterations, st) ==
    IF it >= maxIterations THEN "max_iterations" ELSE st

\* a faulty variant of PostLoopStatus: a run that stopped early is relabelled
PostLoopStatusCompleted(it, maxIterations, st) ==
    IF it >= maxIterations /\ st = "success" THEN "max_iterations"
    ELSE IF st = "success" THEN "completed" ELSE st

\* the check after the loop: the status execute goes on with
PostLoopStatus(it, maxIterations, st) ==
    IF it >= maxIterations /\ st = "success" THEN "max_iterations" ELSE st

\* the check after the loop, the elapsed time, and the UPDATE is issued
PostLoop ==
    /\ pc = "postLoop"
    /\ status' = PostLoopStatus(iteration, cfg.maxIterations, status)
    /\ finalAnswer' = IF status' # status THEN MaxIterationsText ELSE finalAnswer
    /\ pc' = "update"
    /\ UNCHANGED << wire, probe, peer, dash, cfg, messages, tools, iteration, steps, totalTokensUsed, totalCost,
                    response, tcIdx, caught, result, dbVars, histVars, dbFailed >>

\* UPDATE executions SET output, status, ...: it changes the row if there is one
UpdateExecution ==
    /\ pc = "update"
    /\ \/ /\ WritesMayThrow
          /\ dbFailed' = dbFailed \cup {"update"}
          /\ Catch(DbError)
          /\ UNCHANGED dbExec
       \/ /\ dbExec' = IF dbExec = None THEN None
                       ELSE Some([dbExec[1] EXCEPT !.output = finalAnswer,
                                    !.status = status, !.iterations = iteration,
                                    !.tokens_used = totalTokensUsed,
                                    !.cost_usd = totalCost, !.completed = TRUE])
          /\ pc' = "usage"
          /\ UNCHANGED << caught, dbFailed >>
    /\ UNCHANGED << wire, probe, peer, dash, cfg, engineVars, result, dbLogs, dbUsage, histVars >>

\* INSERT INTO usage_tracking, then the result is returned
TrackUsage ==
    /\ pc = "usage"
    /\ \/ /\ WritesMayThrow
          /\ dbFailed' = dbFailed \cup {"usage"}
          /\ Catch(DbError)
          /\ UNCHANGED << dbUsage, result >>
       \/ /\ dbUsage' = Append(dbUsage, [tokens_used |-> totalTokensUsed,
                                         cost_usd |-> totalCost])
          /\ result' = Some([executionId |-> "e1", status |-> status,
                             output |-> finalAnswer, steps |-> steps,
                             tokensUsed |-> totalTokensUsed, cost |-> totalCost,
                             error |-> UNDEFINED])
          /\ pc' = "returned"
          /\ UNCHANGED << caught, dbFailed >>
    /\ UNCHANGED << wire, probe, peer, dash, cfg, engineVars, dbExec, dbLogs, histVars >>

\* the catch handler after its await: the UPDATE ... status = 'error' settles.
\* If it throws, nothing catches it: the promise of execute rejects
ErrorUpdate ==
    /\ pc = "errUpdate"
    /\ \/ /\ WritesMayThrow
          /\ dbFailed' = dbFailed \cup {"errUpdate"}
          /\ pc' = "rejected"
          /\ UNCHANGED << dbExec, result >>
       \/ /\ dbExec' = IF dbExec = None THEN None
                       ELSE Some([dbExec[1] EXCEPT !.status = "error",
                                    !.error_message = caught, !.completed = TRUE])
          /\ result' = Some([executionId |-> "e1", status |-> "error", output |-> "",
                             steps |-> steps, tokensUsed |-> totalTokensUsed,
                             cost |-> totalCost, error |-> caught])
          /\ pc' = "returned"
          /\ UNCHANGED dbFailed
    /\ UNCHANGED << wire, probe, peer, dash, cfg, engineVars, caught, dbLogs, dbUsage,
                    histVars >>

Next ==
    \/ InsertExecution
    \/ LoopHead
    \/ ChatReturns
    \/ LogStepThrows
    \/ LogFinal
    \/ LogReasoning
    \/ LogAction
    \/ ToolReturns
    \/ LogObservation
    \/ PostLoop
    \/ UpdateExecution
    \/ TrackUsage
    \/ ErrorUpdate

Spec == Init /\ [][Next]_vars

\* execute when every awaited call settles: each gateway call, tool call and
\* database write eventually returns or throws, so a step that can be taken
\* is eventually taken
SpecFair == Spec /\ WF_vars(Next)

\* ------------------------------------------- ToolExecutor.execute on its own

ToolNames == {"web_search", "send_email", "database_query", "http_request",
              "slack_notify", "bogus", "", "constructor"}
ArgValues == { NullArgs, Obj(<< >>), Obj([query |-> "q"]),
               Obj([url |-> "u", method |-> "GET"]),
               Obj([to |-> "a", subject |-> "s", body |-> "b"]),
               Obj([channel |-> "c", message |-> "m"]) }

InitTool ==
    /\ cfg = CHOOSE c \in Configs : TRUE
    /\ pc = "idle"
    /\ messages = << >>
    /\ tools = << >>
    /\ iteration = 0
    /\ finalAnswer = ""
    /\ status = "success"
    /\ steps = << >>
    /\ totalTokensUsed = 0
    /\ totalCost = 0
    /\ response = None
    /\ tcIdx = 0
    /\ wire = NoWire
    /\ caught = NULL
    /\ result = None
    /\ dbExec = None
    /\ dbLogs = << >>
    /\ dbUsage = << >>
    /\ gwLog = << >>
    /\ toolLog = << >>
    /\ timeoutAt = 0
    /\ dbFailed = {}
    /\ probe \in [toolName : ToolNames, args : ArgValues, be : BackendBehaviours,
                  outcome : {None}]
    /\ peer = None
    /\ dash = NoDash

\* toolExecutor.execute(toolName, args) settles
ExecuteProbe ==
    /\ probe.outcome = None
    /\ probe' = [probe EXCEPT
                   !.outcome = Some(ToolExecutorExecute(probe.toolName, probe.args, probe.be))]
    /\ UNCHANGED << wire, peer, dash, cfg, pc, engineVars, caught, result, dbVars, histVars, dbFailed >>

SpecTool == InitTool /\ [][ExecuteProbe]_vars

\* ----------------------------------------- LLMClient.chatAnthropic on its own

InitWire ==
    /\ cfg = CHOOSE c \in Configs : TRUE
    /\ pc = "idle"
    /\ messages = << >>
    /\ tools = << >>
    /\ iteration = 0
    /\ finalAnswer = ""
    /\ status = "success"
    /\ steps = << >>
    /\ totalTokensUsed = 0
    /\ totalCost = 0
    /\ response = None
    /\ tcIdx = 0
    /\ caught = NULL
    /\ result = None
    /\ dbExec = None
    /\ dbLogs = << >>
    /\ dbUsage = << >>
    /\ gwLog = << >>
    /\ toolLog = << >>
    /\ timeoutAt = 0
    /\ dbFailed = {}
    /\ probe = NoProbe
    /\ peer = None
    /\ dash = NoDash
    /\ wire \in [messages : SeqsUpTo(WireMessages, MaxMsgs), tools : WireToolLists,
                 request : {None}]

\* chatAnthropic builds its request and gives it to anthropic.messages.create
SendAnthropic ==
    /\ wire.request = None
    /\ wire' = [wire EXCEPT
                  !.request = Some(AnthropicRequest(wire.messages, "claude-3-haiku-20240307",
                                                    wire.tools))]
    /\ UNCHANGED << probe, peer, dash, cfg, pc, engineVars, caught, result, dbVars, histVars,
                    dbFailed >>

SpecWire == InitWire /\ [][SendAnthropic]_vars

\* ------------------------------------------------ two concurrent executions

\* the two calls of execute that run concurrently: different inputs, models
\* and prompts
PairConfigs ==
    << [id |-> "agent", systemPrompt |-> "Be helpful.", model |-> "gpt-4",
        maxIterations |-> 1, timeoutSeconds |-> 1, tools |-> << SearchTool >>,
        input |-> "question"],
       [id |-> "agent2", systemPrompt |-> "Be brief.", model |-> "claude-3-haiku-20240307",
        maxIterations |-> 1, timeoutSeconds |-> 1, tools |-> << SearchTool >>,
        input |-> "other question"] >>

\* everything one call of execute owns: its arguments, its locals, the point
\* it is suspended at, its rows (keyed by its executionId) and its history
Suspended ==
    [cfg |-> cfg, pc |-> pc, messages |-> messages, tools |-> tools,
     iteration |-> iteration, finalAnswer |-> finalAnswer, status |-> status,
     steps |-> steps, totalTokensUsed |-> totalTokensUsed, totalCost |-> totalCost,
     response |-> response, tcIdx |-> tcIdx, caught |-> caught, result |-> result,
     dbExec |-> dbExec, dbLogs |-> dbLogs, dbUsage |-> dbUsage, gwLog |-> gwLog,
     toolLog |-> toolLog, timeoutAt |-> timeoutAt, dbFailed |-> dbFailed]

\* a call of execute that has just been made
Fresh(c) ==
    [cfg |-> c, pc |-> "insert", messages |-> << >>, tools |-> << >>,
     iteration |-> 0, finalAnswer |-> "", status |-> "success",
     steps |-> << >>, totalTokensUsed |-> 0, totalCost |-> 0,
     response |-> None, tcIdx |-> 0, caught |-> NULL, result |-> None,
     dbExec |-> None, dbLogs |-> << >>, dbUsage |-> << >>, gwLog |-> << >>,
     toolLog |-> << >>, timeoutAt |-> 0, dbFailed |-> {}]

\* a faulty variant of Resume: steps is a field of the engine singleton, so
\* the resumed call goes on with the list the other call left
ResumeSharedSteps(p) ==
    /\ cfg' = p.cfg /\ pc' = p.pc /\ messages' = p.messages /\ tools' = p.tools
    /\ iteration' = p.iteration /\ finalAnswer' = p.finalAnswer /\ status' = p.status
    /\ steps' = steps
    /\ totalTokensUsed' = p.totalTokensUsed /\ totalCost' = p.totalCost
    /\ response' = p.response /\ tcIdx' = p.tcIdx /\ caught' = p.caught
    /\ result' = p.result /\ dbExec' = p.dbExec /\ dbLogs' = p.dbLogs
    /\ dbUsage' = p.dbUsage /\ gwLog' = p.gwLog /\ toolLog' = p.toolLog
    /\ timeoutAt' = p.timeoutAt /\ dbFailed' = p.dbFailed

\* the event loop resumes a suspended call of execute: every local is the
\* call's own (const / let inside execute; the engine, the gateway and the
\* executor singletons have no instance field that a call writes)
Resume(p) ==
    /\ cfg' = p.cfg /\ pc' = p.pc /\ messages' = p.messages /\ tools' = p.tools
    /\ iteration' = p.iteration /\ finalAnswer' = p.finalAnswer /\ status' = p.status
    /\ steps' = p.steps
    /\ totalTokensUsed' = p.totalTokensUsed /\ totalCost' = p.totalCost
    /\ response' = p.response /\ tcIdx' = p.tcIdx /\ caught' = p.caught
    /\ result' = p.result /\ dbExec' = p.dbExec /\ dbLogs' = p.dbLogs
    /\ dbUsage' = p.dbUsage /\ gwLog' = p.gwLog /\ toolLog' = p.toolLog
    /\ timeoutAt' = p.timeoutAt /\ dbFailed' = p.dbFailed

\* at an await the running call is suspended and the other one goes on
Swap ==
    /\ peer # None
    /\ peer' = Some(Suspended)
    /\ Resume(peer[1])
    /\ UNCHANGED << wire, probe, dash >>

InitPair ==
    /\ cfg = PairConfigs[1]
    /\ pc = "insert"
    /\ messages = << >>
    /\ tools = << >>
    /\ iteration = 0
    /\ finalAnswer = ""
    /\ status = "success"
    /\ steps = << >>
    /\ totalTokensUsed = 0
    /\ totalCost = 0
    /\ response = None
    /\ tcIdx = 0
    /\ wire = NoWire
    /\ caught = NULL
    /\ result = None
    /\ dbExec = None
    /\ dbLogs = << >>
    /\ dbUsage = << >>
    /\ gwLog = << >>
    /\ toolLog = << >>
    /\ timeoutAt = 0
    /\ dbFailed = {}
    /\ probe = NoProbe
    /\ peer = Some(Fresh(PairConfigs[2]))
    /\ dash = NoDash

\* the steps of the running call (the database answers every write), or
\* the other call goes on
NextPair ==
    \/ InsertExecution
    \/ LoopHead
    \/ ChatReturns
    \/ LogFinal
    \/ LogReasoning
    \/ LogAction
    \/ ToolReturns
    \/ LogObservation
    \/ PostLoop
    \/ UpdateExecution
    \/ TrackUsage
    \/ ErrorUpdate
    \/ Swap

SpecPair == InitPair /\ [][NextPair]_vars

\* ----------------------------------------------------------- DashboardPage

\* what useUser() can return: not loaded yet (no user), or loaded with or
\* without a signed-in user
AuthStates == { << FALSE, NULL >>, << TRUE, NULL >>, << TRUE, "user-1" >>, << TRUE, "user-2" >> }

\* what api.agents.list() settles with: a body with agents, a body without
\* the agents field, or a rejection
ListOutcomes ==
    { Return(Some(<< >>)), Return(Some(<< "Agent 1" >>)), Return(None),
      Throw("Failed to fetch agents") }

\* the condition of the effect: if (isLoaded && user)
ShouldLoad(isLoaded, user) == isLoaded /\ user # NULL

\* what the component renders
Render(d) ==
    IF ~d.isLoaded \/ d.loading THEN "Loading..."
    ELSE IF d.user = NULL THEN "Please sign in"
    ELSE IF Len(d.agents) = 0 THEN "You haven't created any agents yet."
    ELSE "Your Agents"

InitDash ==
    /\ cfg = CHOOSE c \in Configs : TRUE
    /\ pc = "idle"
    /\ messages = << >>
    /\ tools = << >>
    /\ iteration = 0
    /\ finalAnswer = ""
    /\ status = "success"
    /\ steps = << >>
    /\ totalTokensUsed = 0
    /\ totalCost = 0
    /\ response = None
    /\ tcIdx = 0
    /\ wire = NoWire
    /\ caught = NULL
    /\ result = None
    /\ dbExec = None
    /\ dbLogs = << >>
    /\ dbUsage = << >>
    /\ gwLog = << >>
    /\ toolLog = << >>
    /\ timeoutAt = 0
    /\ dbFailed = {}
    /\ probe = NoProbe
    /\ peer = None
    /\ \E a \in AuthStates : dash = MountedDash(a[1], a[2])

\* useUser() returns something new: the hook finishes loading, a user signs
\* in or out
AuthChanges ==
    /\ pc = "idle"
    /\ dash.changes < MaxAuthChanges
    /\ \E a \in AuthStates :
         /\ a # << dash.isLoaded, dash.user >>
         /\ dash.isLoaded => a[1]
         /\ dash' = [dash EXCEPT !.isLoaded = a[1], !.user = a[2],
                                 !.changes = dash.changes + 1]
    /\ UNCHANGED << wire, probe, peer, cfg, pc, engineVars, caught, result, dbVars, histVars,
                    dbFailed >>

\* the effect runs after the first render and after a render with new
\* [isLoaded, user]; it calls loadAgents, up to its await, if its condition holds
RunEffect ==
    /\ pc = "idle"
    /\ dash.deps # Some(<< dash.isLoaded, dash.user >>)
    /\ dash' = [dash EXCEPT
                  !.deps = Some(<< dash.isLoaded, dash.user >>),
                  !.listCalls = IF ShouldLoad(dash.isLoaded, dash.user)
                                THEN dash.listCalls + 1 ELSE dash.listCalls,
                  !.pending = IF ShouldLoad(dash.isLoaded, dash.user)
                              THEN dash.pending + 1 ELSE dash.pending]
    /\ UNCHANGED << wire, probe, peer, cfg, pc, engineVars, caught, result, dbVars, histVars,
                    dbFailed >>

\* api.agents.list() settles: setAgents(data.agents || []) or the error is
\* logged, and in both cases setLoading(false)
ListSettles ==
    /\ pc = "idle"
    /\ dash.pending > 0
    /\ \E o \in ListOutcomes :
         dash' = [dash EXCEPT
                    !.pending = dash.pending - 1,
                    !.agents = IF o.kind = "throw" THEN dash.agents
                               ELSE IF o.value = None THEN << >> ELSE o.value[1],
                    !.loading = FALSE]
    /\ UNCHANGED << wire, probe, peer, cfg, pc, engineVars, caught, result, dbVars, histVars,
                    dbFailed >>

NextDash == AuthChanges \/ RunEffect \/ ListSettles

SpecDash == InitDash /\ [][NextDash]_vars

\* ================================================================== claims

Last(q) == q[Len(q)]
Range(q) == { q[i] : i \in 1..Len(q) }

StatusValues == {"success", "error", "timeout", "max_iterations"}

\* a gateway response that carries no tool call
ToolCallFree(r) == r.toolCalls = None \/ r.toolCalls[1] = << >>
\* the gateway calls that returned a response
Responded == { i \in 1..Len(gwLog) : gwLog[i].outcome.kind = "return" }
FinalResponses == { i \in Responded : ToolCallFree(gwLog[i].outcome.value) }
\* the gateway calls made: those settled and the one outstanding
GatewayCalls == Len(gwLog) + (IF pc = "chat" THEN 1 ELSE 0)
\* the steps of one kind in a trace
StepsOfType(q, type) == { i \in 1..Len(q) : q[i].stepType = type }

\* the observation text the engine owes to an executor outcome
ObservationOf(outcome) ==
    IF outcome.kind = "throw" THEN "Error: " \o outcome.msg
    ELSE Stringify(outcome.value)
\* the executor invocation of tool call j of iteration i
ToolEntry(i, j) == CHOOSE t \in Range(toolLog) : t.iteration = i /\ t.index = j

\* the tokens and the cost of the responses to the first n gateway calls
RECURSIVE TokensOver(_)
TokensOver(n) ==
    IF n = 0 THEN 0
    ELSE TokensOver(n - 1)
           + (IF n \in Responded THEN gwLog[n].outcome.value.usage.totalTokens ELSE 0)
RECURSIVE CostOver(_)
CostOver(n) ==
    IF n = 0 THEN 0
    ELSE CostOver(n - 1)
           + (IF n \in Responded
              THEN LET u == gwLog[n].outcome.value.usage
                       rate == IF cfg.model \in DOMAIN TOKEN_COSTS
                               THEN TOKEN_COSTS[cfg.model]
                               ELSE [input |-> 1000, output |-> 3000]
                   IN u.promptTokens * rate.input + u.completionTokens * rate.output
              ELSE 0)

\* the steps that the completed iterations 1..n owe to their responses
RECURSIVE TriplesFrom(_, _, _)
TriplesFrom(i, r, j) ==
    IF j > Len(r.toolCalls[1]) THEN << >>
    ELSE << Step(i, "reasoning", r.content, None, UNDEFINED),
            Step(i, "action", UNDEFINED,
                 Some([tool |-> r.toolCalls[1][j].name,
                       arguments |-> r.toolCalls[1][j].arguments]), UNDEFINED),
            Step(i, "observation", UNDEFINED, None,
                 ObservationOf(ToolEntry(i, j).outcome)) >>
           \o TriplesFrom(i, r, j + 1)
RECURSIVE StepsOver(_)
StepsOver(n) ==
    IF n = 0 THEN << >>
    ELSE StepsOver(n - 1)
           \o (IF n \notin Responded THEN << >>
               ELSE IF ToolCallFree(gwLog[n].outcome.value)
               THEN << Step(n, "final", gwLog[n].outcome.value.content, None, UNDEFINED) >>
               ELSE TriplesFrom(n, gwLog[n].outcome.value, 1))

\* C1 (as claimed): execute never rejects; whatever the gateway, the executor
\* and the database writes do, it ends by returning a fully-formed result.
C1_NeverRejects ==
    /\ pc # "rejected"
    /\ pc = "returned" =>
         /\ result # None
         /\ result[1].status \in StatusValues

\* C2 (as claimed): when no collaborator throws and some gateway response is
\* tool-call-free, the result is success with that response's text as output
\* and exactly one final step; max_iterations is returned only when no
\* response was tool-call-free.
C2_FinalAnswerIsSuccess ==
    pc = "returned" =>
      /\ (caught = NULL /\ FinalResponses # {}) =>
           /\ result[1].status = "success"
           /\ \A i \in FinalResponses : result[1].output = gwLog[i].outcome.value.content
           /\ Cardinality(StepsOfType(result[1].steps, "final")) = 1
      /\ result[1].status = "max_iterations" => FinalResponses = {}

\* C3 (as claimed): the counter never exceeds maxIterations, and a run that
\* ends with the counter at maxIterations and no tool-call-free response
\* returns max_iterations, however the last iteration ended.
C3_ExhaustedIsMaxIterations ==
    /\ iteration <= cfg.maxIterations
    /\ (pc = "returned" /\ iteration = cfg.maxIterations /\ FinalResponses = {})
         => result[1].status = "max_iterations"

\* C3 (amended): the counter never exceeds maxIterations and at most
\* maxIterations gateway calls are made; a run that ends with the counter at
\* maxIterations and no tool-call-free response returns max_iterations unless
\* the timeout check of the last iteration fired (timeout) or an exception
\* was caught (error).
C3_ExhaustedUnlessTimeoutOrError ==
    /\ iteration <= cfg.maxIterations
    /\ GatewayCalls <= cfg.maxIterations
    /\ (pc = "returned" /\ iteration = cfg.maxIterations /\ FinalResponses = {})
         => result[1].status = IF caught # NULL THEN "error"
                               ELSE IF timeoutAt # 0 THEN "timeout"
                               ELSE "max_iterations"

\* C3 witness: a run of several iterations that used all of them and returned
\* max_iterations
C3_Witness ==
    /\ pc = "returned"
    /\ cfg.maxIterations >= 2
    /\ iteration = cfg.maxIterations
    /\ Len(gwLog) = cfg.maxIterations
    /\ result[1].status = "max_iterations"

C5_GatewayFailure ==
    (gwLog # << >> /\ Last(gwLog).outcome.kind = "throw") =>
      LET k == Len(gwLog)
      IN /\ iteration = k
         /\ pc \in {"errUpdate", "returned", "rejected"}
         /\ \A i \in 1..(k - 1) : i \in Responded
         /\ \A t \in Range(toolLog) : t.iteration < k
         /\ pc = "returned" =>
              /\ result[1].status = "error"
              /\ result[1].error = Last(gwLog).outcome.msg
              /\ result[1].tokensUsed = TokensOver(k - 1)
              /\ result[1].cost = CostOver(k - 1)
              /\ result[1].steps = StepsOver(k - 1)

\* C5 witness: the gateway threw on a later iteration, after tokens, cost
\* and steps were accumulated
C5_Witness ==
    /\ pc = "returned"
    /\ Len(gwLog) >= 2
    /\ Last(gwLog).outcome.kind = "throw"
    /\ result[1].tokensUsed > 0
    /\ Len(result[1].steps) >= 3

\* an executor invocation that failed: it rejected, or resolved with success false
FailedOutcome(o) == o.kind = "throw" \/ ~o.value.success
\* the observation of the n-th executor invocation has been logged and
\* appended to the conversation
Appended(n) ==
    n < Len(toolLog) \/ (pc # "logObservation" /\ "logObservation" \notin dbFailed)
\* the tool calls of iteration i that have been invoked
InvokedIn(i) == { n \in 1..Len(toolLog) : toolLog[n].iteration = i }
\* the tool loop of the latest response is under way
InToolLoop == pc \in {"logReasoning", "logAction", "tool", "logObservation"}

\* C6: a failing tool call never terminates the execution.  Every executor
\* invocation, failed ones included, has its observation step (carrying the
\* error) right after its action step; once the step is logged the assistant
\* and the function message (tagged with the tool name) are in the
\* conversation; the executor is invoked for the tool calls of a response one
\* after the other, in order, and for all of them unless a database write or
\* the gateway threw; every later gateway call has the observation in its
\* input; a run that ends without a final answer, a timeout or a caught error
\* has used all maxIterations; and an error is only ever caught from a
\* database write, the gateway or the schema parsing, never from a tool.
C6_ToolFailureContinues ==
    /\ \A n \in 1..Len(toolLog) :
         LET t == toolLog[n]
         IN /\ 3 * n <= Len(steps)
            /\ steps[3 * n] = Step(t.iteration, "observation", UNDEFINED, None,
                                   ObservationOf(t.outcome))
            /\ steps[3 * n - 1].stepType = "action"
            /\ steps[3 * n - 1].action[1].tool = t.name
            /\ FailedOutcome(t.outcome) =>
                 IF t.outcome.kind = "throw"
                 THEN steps[3 * n].observation = "Error: " \o t.outcome.msg
                 ELSE t.outcome.value.error # UNDEFINED
            /\ Appended(n) =>
                 /\ 2 + 2 * n <= Len(messages)
                 /\ messages[1 + 2 * n].role = "assistant"
                 /\ messages[2 + 2 * n] = [role |-> "function", name |-> t.name,
                                           content |-> ObservationOf(t.outcome)]
            /\ \A g \in Range(gwLog) :
                 g.iteration > t.iteration => messages[2 + 2 * n] \in Range(g.input)
    /\ \A i \in Responded \ FinalResponses :
         LET calls == gwLog[i].outcome.value.toolCalls[1]
             done == InvokedIn(i)
         IN /\ Cardinality(done) <= Len(calls)
            /\ \A n \in done :
                 /\ toolLog[n].index = 1 + Cardinality({ m \in done : m < n })
                 /\ toolLog[n].name = calls[toolLog[n].index].name
            /\ (caught = NULL /\ ~InToolLoop) => Cardinality(done) = Len(calls)
            /\ (i < Len(gwLog) \/ pc = "chat") => Cardinality(done) = Len(calls)
    /\ (pc \in {"postLoop", "update", "usage", "returned"} /\ caught = NULL
          /\ FinalResponses = {} /\ timeoutAt = 0)
         => iteration = cfg.maxIterations
    /\ caught # NULL =>
         \/ dbFailed # {}
         \/ gwLog # << >> /\ Last(gwLog).outcome.kind = "throw"
         \/ gwLog = << >> /\ iteration = 0 /\ BrokenTool \in Range(cfg.tools)

\* C6 witness: the first of two tool calls of iteration 1 made the executor
\* reject, the second was invoked, and the gateway call of iteration 2 is out
C6_Witness ==
    /\ pc = "chat"
    /\ iteration = 2
    /\ Len(toolLog) = 2
    /\ toolLog[1].outcome.kind = "throw"
    /\ toolLog[2].iteration = 1
    /\ FailedOutcome(toolLog[2].outcome)
    /\ toolLog[2].outcome.kind = "return"

Registry == {"web_search", "send_email", "database_query", "http_request", "slack_notify"}

\* C7: ToolExecutor.execute never rejects: for every tool name, args value
\* and backend behaviour it resolves to a ToolResult; for a name outside the
\* registry the result is {success: false, error: 'Unknown tool: <name>'} and
\* no backend request is made.
C7_ExecutorNeverRejects ==
    probe.outcome # None =>
      LET o == probe.outcome[1]
      IN /\ o.kind = "return"
         /\ o.value.success \in BOOLEAN
         /\ probe.toolName \notin Registry =>
              /\ o.value.success = FALSE
              /\ o.value.error = "Unknown tool: " \o probe.toolName
              /\ o.value.data = UNDEFINED
              /\ o.value.requests = 0

\* C7 witness: an unknown tool called with null args has been answered
C7_Witness ==
    /\ probe.outcome # None
    /\ probe.toolName = "bogus"
    /\ probe.args = NullArgs
    /\ probe.outcome[1].kind = "return"

\* C8: when every gateway response carries a tool call and neither a timeout
\* nor a caught exception occurs, exactly maxIterations gateway calls are made
\* and the result is max_iterations with the fixed output and no final step.
C8_AlwaysToolCalls ==
    (pc = "returned" /\ caught = NULL /\ timeoutAt = 0 /\ FinalResponses = {}) =>
      /\ Len(gwLog) = cfg.maxIterations
      /\ Responded = 1..cfg.maxIterations
      /\ result[1].status = "max_iterations"
      /\ result[1].output = "Maximum iterations reached without finding a final answer"
      /\ StepsOfType(result[1].steps, "final") = {}
      /\ result[1].steps = StepsOver(cfg.maxIterations)

\* C8 witness: maxIterations >= 2 tool-calling iterations, then max_iterations
C8_Witness ==
    /\ pc = "returned"
    /\ caught = NULL
    /\ timeoutAt = 0
    /\ FinalResponses = {}
    /\ cfg.maxIterations >= 2
    /\ Len(toolLog) >= 2

\* C9 (as claimed): with timeoutSeconds = 0 the first timeout check fires
\* whatever the clock reads, so no gateway call and no tool call is ever
\* made, no token is counted and no step recorded, and the result is timeout.
C9_ZeroTimeoutFiresFirst ==
    (cfg.timeoutSeconds = 0 /\ iteration >= 1) =>
      /\ timeoutAt = 1
      /\ GatewayCalls = 0
      /\ toolLog = << >>
      /\ totalTokensUsed = 0
      /\ steps = << >>
      /\ (pc = "returned" /\ caught = NULL) => result[1].status = "timeout"

\* the claim's identifiers: those that start with none of the known prefixes
UnknownPrefix(model) ==
    /\ ~StartsWith(model, "gpt-")
    /\ ~StartsWith(model, "o1-")
    /\ ~StartsWith(model, "claude-")

\* C10: for a model identifier with none of the known prefixes the gateway
\* call fails with 'Unsupported model: <id>' without contacting a provider
\* and is not repeated, and the execution that made it returns error with
\* that message after exactly one gateway invocation, with no tokens, no
\* cost and an empty trace.
C10_UnsupportedModel ==
    UnknownPrefix(cfg.model) =>
      /\ GatewayCalls <= 1
      /\ \A g \in Range(gwLog) :
           /\ g.contacted = {}
           /\ g.outcome = Throw("Unsupported model: " \o cfg.model)
      /\ toolLog = << >>
      /\ (pc = "returned" /\ gwLog # << >>) =>
           /\ Len(gwLog) = 1
           /\ result[1].status = "error"
           /\ result[1].error = "Unsupported model: " \o cfg.model
           /\ result[1].tokensUsed = 0
           /\ result[1].cost = 0
           /\ result[1].steps = << >>

\* C10 witness: an execution with model 'llama-2' called the gateway once and
\* returned error
C10_Witness ==
    /\ pc = "returned"
    /\ cfg.model = "llama-2"
    /\ Len(gwLog) = 1
    /\ result[1].status = "error"

\* the kinds of the steps of a trace, in order
StepTypes(q) == [i \in 1..Len(q) |-> q[i].stepType]

\* C11: in the trace of every execution that ends without an exception, each
\* iteration contributes exactly one final step or, for a response with k
\* tool calls, k consecutive (reasoning, action, observation) triples in the
\* order of the calls, the j-th action naming the j-th call and the j-th
\* observation being that call's result; one tool-calling iteration followed
\* by a final answer gives [reasoning, action, observation, final] and an
\* iteration count of 2.
C11_StepsPerIteration ==
    (pc = "returned" /\ caught = NULL) =>
      /\ result[1].steps = StepsOver(Len(gwLog))
      /\ \A i \in 1..Len(gwLog) :
           LET r == gwLog[i].outcome.value
               mine == { n \in 1..Len(steps) : steps[n].stepNumber = i }
           IN IF ToolCallFree(r)
              THEN /\ Cardinality(mine) = 1
                   /\ \A n \in mine : steps[n].stepType = "final" /\ n = Len(steps)
              ELSE /\ Cardinality(mine) = 3 * Len(r.toolCalls[1])
                   /\ \A n \in mine :
                        LET first == CHOOSE m \in mine : \A o \in mine : m <= o
                            k == n - first
                            call == r.toolCalls[1][(k \div 3) + 1]
                        IN /\ k < 3 * Len(r.toolCalls[1])
                           /\ steps[n].stepType =
                                << "reasoning", "action", "observation" >>[(k % 3) + 1]
                           /\ (k % 3 = 1) =>
                                steps[n].action = Some([tool |-> call.name,
                                                        arguments |-> call.arguments])
                           /\ (k % 3 = 2) =>
                                steps[n].observation =
                                  ObservationOf(ToolEntry(i, (k \div 3) + 1).outcome)
      /\ (/\ Len(gwLog) = 2
          /\ ~ToolCallFree(gwLog[1].outcome.value)
          /\ Len(gwLog[1].outcome.value.toolCalls[1]) = 1
          /\ ToolCallFree(gwLog[2].outcome.value))
           => /\ StepTypes(result[1].steps)
                   = << "reasoning", "action", "observation", "final" >>
              /\ iteration = 2
              /\ dbExec[1].iterations = 2

\* C11 witness: one tool call in iteration 1, a final answer in iteration 2,
\* and the result was returned without an exception
C11_Witness ==
    /\ pc = "returned"
    /\ caught = NULL
    /\ Len(gwLog) = 2
    /\ Len(toolLog) = 1
    /\ StepTypes(result[1].steps) = << "reasoning", "action", "observation", "final" >>

\* C12 (as claimed): in the step list of every returned result, the results
\* with status error included, every action step is immediately followed by
\* an observation step with the same number.
C12_ActionThenObservation ==
    pc = "returned" =>
      \A n \in StepsOfType(result[1].steps, "action") :
        /\ n < Len(result[1].steps)
        /\ result[1].steps[n + 1].stepType = "observation"
        /\ result[1].steps[n + 1].stepNumber = result[1].steps[n].stepNumber

\* the list q extends the list p
Extends(q, p) == Len(q) >= Len(p) /\ \A i \in 1..Len(p) : q[i] = p[i]

\* the step numbers of a state: within 1..maxIterations, never decreasing,
\* never skipping an iteration, and no later than the iteration under way
StepNumbersInOrder ==
    /\ \A n \in 1..Len(steps) :
         /\ steps[n].stepNumber \in 1..cfg.maxIterations
         /\ steps[n].stepNumber <= iteration
    /\ \A n \in 1..(Len(steps) - 1) :
         /\ steps[n].stepNumber <= steps[n + 1].stepNumber
         /\ steps[n + 1].stepNumber - steps[n].stepNumber <= 1
    /\ steps # << >> => steps[1].stepNumber = 1
    /\ pc = "returned" => result[1].steps = steps

\* C13: every step's number is the 1-based index of the iteration that
\* produced it: in every reachable state the step numbers lie in
\* 1..maxIterations, never decrease along the list and rise by at most 1 from
\* one step to the next; and the list only grows by appending: every step of
\* the program leaves the steps already there as they are.
C13_StepNumbers ==
    /\ []StepNumbersInOrder
    /\ [][/\ Extends(steps', steps)
          /\ Len(steps') <= Len(steps) + 1
          /\ Len(steps') = Len(steps) + 1 => steps'[Len(steps')].stepNumber = iteration'
          /\ iteration' \in {iteration, iteration + 1}]_vars

\* C13 witness: the trace holds the steps of iteration 1 and those of
\* iteration 2, the last one just appended
C13_Witness ==
    /\ Len(steps) = 6
    /\ steps[3].stepNumber = 1
    /\ steps[4].stepNumber = 2
    /\ steps[6].stepType = "observation"
    /\ pc = "logObservation"

\* C14: every returned result carries one status, one of success, error,
\* timeout and max_iterations; a result exists only once execute has
\* returned, and by then the execution is not in the running state any more
\* (neither the result nor the execution record, if there is one, says so).
C14_OneTerminalStatus ==
    /\ result # None <=> pc = "returned"
    /\ pc = "returned" =>
         /\ result[1].status \in StatusValues
         /\ result[1].status # "running"
         /\ caught = NULL => result[1].status = status
         /\ caught # NULL => result[1].status = "error"
         /\ dbExec # None => dbExec[1].status \in StatusValues

\* C14 witness: a result with status success has been returned
C14_Witness ==
    /\ pc = "returned"
    /\ result[1].status = "success"
    /\ result[1].output = "Answer A"

\* the UPDATE of the stop-condition path has been issued and applied (one
\* that threw is not counted)
StopUpdateApplied ==
    \/ pc = "usage"
    \/ pc = "returned" /\ caught = NULL
    \/ "usage" \in dbFailed
\* the UPDATE of the catch handler has been issued (settled or thrown)
ErrorUpdateIssued == caught # NULL /\ pc \in {"errUpdate", "returned", "rejected"}
TerminalUpdates ==
    (IF StopUpdateApplied THEN 1 ELSE 0) + (IF ErrorUpdateIssued THEN 1 ELSE 0)

\* C15 (as claimed): each execution is finalized exactly once: in every run,
\* runs in which a database write throws included, never both terminal
\* updates are issued, and a run that has returned issued exactly one of
\* them and returned exactly one result.
C15_FinalizedOnce ==
    /\ TerminalUpdates <= 1
    /\ pc = "returned" => TerminalUpdates = 1 /\ result # None

\* C16 (as claimed): whenever execute returns, whatever the outcome and
\* whichever database write failed, the store holds the execution's record
\* and its status is terminal and equal to the status of the result.
C16_RecordMatchesResult ==
    pc = "returned" =>
      /\ dbExec # None
      /\ dbExec[1].status # "running"
      /\ dbExec[1].status = result[1].status

\* C17 (as claimed): the usage of every gateway response, on either provider
\* path and whatever total the provider reports, has totalTokens =
\* promptTokens + completionTokens, and the accumulated token total is the
\* sum of promptTokens + completionTokens over the responses received.
C17_TotalIsSum ==
    /\ \A i \in Responded :
         LET u == gwLog[i].outcome.value.usage
         IN u.totalTokens = u.promptTokens + u.completionTokens
    /\ pc = "returned" =>
         result[1].tokensUsed = TokensOver(Len(gwLog))

\* the last gateway call threw
GatewayThrew == gwLog # << >> /\ Last(gwLog).outcome.kind = "throw"

\* C18: the cost of every returned result is the sum, over the gateway
\* responses received, of promptTokens x inputRate + completionTokens x
\* outputRate, with the table entry of agentConfig.model or, for a model
\* without an entry, the default pair (0.01/1000, 0.03/1000); a model
\* without an entry never makes the execution fail: whatever is caught then
\* comes from a database write, the gateway or the schema parsing.
C18_CostIsSumOfRates ==
    /\ totalCost = CostOver(Len(gwLog))
    /\ pc = "returned" => result[1].cost = CostOver(Len(gwLog))
    /\ (cfg.model \notin DOMAIN TOKEN_COSTS /\ caught # NULL) =>
         \/ dbFailed # {}
         \/ GatewayThrew
         \/ gwLog = << >> /\ iteration = 0 /\ BrokenTool \in Range(cfg.tools)

\* C18 witness: a model without a table entry ('o1-mini'), two responses,
\* returned without an exception at the default rates
C18_Witness ==
    /\ pc = "returned"
    /\ caught = NULL
    /\ cfg.model = "o1-mini"
    /\ Cardinality(Responded) = 2
    /\ result[1].cost = 3 * 1000 + 2 * 3000

\* C19: within one execution the running cost and the running token total
\* never decrease, and they change only in the step that receives a gateway
\* response: tool invocations, step logging and conversation appends leave
\* both as they are.
C19_TotalsMonotone ==
    [][/\ totalCost' >= totalCost
       /\ totalTokensUsed' >= totalTokensUsed
       /\ (totalCost' # totalCost \/ totalTokensUsed' # totalTokensUsed) =>
            /\ pc = "chat"
            /\ Len(gwLog') = Len(gwLog) + 1
            /\ gwLog'[Len(gwLog')].outcome.kind = "return"
       /\ (steps' # steps /\ pc # "chat") =>
            totalCost' = totalCost /\ totalTokensUsed' = totalTokensUsed
       /\ toolLog' # toolLog =>
            totalCost' = totalCost /\ totalTokensUsed' = totalTokensUsed
       /\ (messages' # messages \/ dbLogs' # dbLogs) =>
            totalCost' = totalCost /\ totalTokensUsed' = totalTokensUsed]_vars

\* C19 witness: the totals rose at the first and at the second response and
\* stayed through the tool invocations in between and after
C19_Witness ==
    /\ pc = "logObservation"
    /\ Cardinality(Responded) = 2
    /\ Len(toolLog) = 2
    /\ totalCost = CostOver(2)
    /\ CostOver(2) > CostOver(1)
    /\ CostOver(1) > 0
    /\ totalTokensUsed > 0

\* the conversation a call owes to its own config, input, responses and the
\* first n of its own tool results
RECURSIVE MessagesOver(_)
MessagesOver(n) ==
    IF n = 0
    THEN << [role |-> "system", name |-> UNDEFINED,
             content |-> cfg.systemPrompt \o ReActText \o "\n\nAvailable tools:\n"
                           \o "- web_search: Search the web" \o FinalText],
            [role |-> "user", name |-> UNDEFINED, content |-> cfg.input] >>
    ELSE MessagesOver(n - 1)
           \o << [role |-> "assistant", name |-> UNDEFINED,
                  content |-> gwLog[toolLog[n].iteration].outcome.value.content],
                 [role |-> "function", name |-> toolLog[n].name,
                  content |-> ObservationOf(toolLog[n].outcome)] >>

\* the steps a call has pushed for the tool call it is working on
StepsUnderWay ==
    IF pc = "logReasoning" THEN 1 ELSE IF pc \in {"logAction", "tool"} THEN 2 ELSE 0

\* C20: with two executions interleaved at every await, the conversation, the
\* step list, the totals and the result of the running call are exactly what
\* its own config, input, gateway responses and tool results give: no message
\* and no step of the other call is among them; the shared gateway is asked
\* with the call's own conversation and routes by the call's own model, and
\* every answer of the shared executor is its answer to the call's own
\* tool call.
C20_Isolation ==
    /\ pc # "insert" =>
         messages = MessagesOver(Len(toolLog) - (IF pc = "logObservation" THEN 1 ELSE 0))
    /\ \A i \in 1..Len(gwLog) :
         /\ Extends(messages, gwLog[i].input)
         /\ gwLog[i].input[2].content = cfg.input
         /\ gwLog[i].contacted = {Provider(cfg.model)}
         /\ gwLog[i].iteration = i
    /\ \A n \in 1..Len(toolLog) :
         LET call == gwLog[toolLog[n].iteration].outcome.value.toolCalls[1][toolLog[n].index]
         IN /\ toolLog[n].name = call.name
            /\ toolLog[n].outcome \in
                 { Throw("executor failure") }
                   \cup { ToolExecutorExecute(call.name, call.arguments, be) :
                            be \in EngineBackends }
    /\ Len(steps) = Cardinality(FinalResponses) + 3 * Len(toolLog) + StepsUnderWay
    /\ \A n \in 1..Len(steps) : steps[n].stepNumber \in 1..iteration
    /\ pc \in {"loop", "chat", "postLoop", "update", "usage", "errUpdate", "returned"} =>
         steps = StepsOver(Len(gwLog))
    /\ totalTokensUsed = TokensOver(Len(gwLog))
    /\ totalCost = CostOver(Len(gwLog))
    /\ pc = "returned" =>
         /\ result[1].steps = StepsOver(Len(gwLog))
         /\ result[1].tokensUsed = TokensOver(Len(gwLog))
         /\ result[1].cost = CostOver(Len(gwLog))
         /\ result[1].output = IF caught # NULL THEN "" ELSE finalAnswer
    /\ peer # None =>
         /\ peer[1].cfg # cfg
         /\ \A m \in Range(peer[1].messages) :
              m.role \in {"system", "user"} => m \notin Range(messages)

\* C20 witness: both calls are in the middle of their tool loops, each with
\* steps, messages and totals of its own, and the running one was resumed
\* after the other had started
C20_Witness ==
    /\ peer # None
    /\ pc = "logObservation"
    /\ peer[1].pc = "tool"
    /\ cfg = PairConfigs[1]
    /\ Len(steps) = 3
    /\ Len(peer[1].steps) = 2
    /\ totalCost > peer[1].totalCost
    /\ peer[1].totalCost > 0

\* C21 (as claimed): when authentication has loaded and nobody is signed in,
\* the page shows 'Please sign in' instead of 'Loading...', and a page
\* mounted in that state has requested no agent list.
C21_SignInPrompt ==
    (dash.isLoaded /\ dash.user = NULL) =>
      /\ Render(dash) = "Please sign in"
      /\ dash.changes = 0 => dash.listCalls = 0

\* the system messages of a conversation
SystemMessages(q) == { n \in 1..Len(q) : q[n].role = "system" }

\* the conversation, once created, has one system message, the first, with
\* the prompt composed from the config; and each gateway call got the list
\* of the call before, extended at the end
OneSystemMessage ==
    /\ messages # << >> =>
         /\ SystemMessages(messages) = {1}
         /\ messages[1].content = buildSystemPrompt(cfg.systemPrompt, cfg.tools).value
    /\ \A i \in 1..Len(gwLog) :
         /\ SystemMessages(gwLog[i].input) = {1}
         /\ gwLog[i].input[1] = messages[1]
         /\ i > 1 => Extends(gwLog[i].input, gwLog[i - 1].input)
         /\ Extends(messages, gwLog[i].input)

\* C22: in every reachable state the conversation has exactly one system
\* message, it is the first and its content is the prompt composed before
\* the loop; no step changes or removes a message, the list only grows at
\* its end, and the list given to the gateway on iteration i+1 is the one
\* given on iteration i, extended.
C22_SystemMessageOnce ==
    /\ []OneSystemMessage
    /\ [][Extends(messages', messages)
          /\ (messages # << >> => messages'[1] = messages[1])]_vars

\* C22 witness: the second gateway call got a longer list than the first,
\* with the same system message in front
C22_Witness ==
    /\ Len(gwLog) = 2
    /\ Len(gwLog[2].input) > Len(gwLog[1].input)
    /\ gwLog[2].input[1].role = "system"
    /\ gwLog[2].input[1] = gwLog[1].input[1]

\* the messages owed to tool calls j.. of iteration i: for each call the
\* response text as assistant, then the call's observation as function
RECURSIVE PairsFrom(_, _)
PairsFrom(i, j) ==
    IF j > Len(gwLog[i].outcome.value.toolCalls[1]) THEN << >>
    ELSE << [role |-> "assistant", name |-> UNDEFINED,
             content |-> gwLog[i].outcome.value.content],
            [role |-> "function", name |-> gwLog[i].outcome.value.toolCalls[1][j].name,
             content |-> ObservationOf(ToolEntry(i, j).outcome)] >>
           \o PairsFrom(i, j + 1)

\* no exception was caught and the execution is between two iterations, at
\* a gateway call, or past the loop
BetweenIterations ==
    caught = NULL /\ pc \in {"loop", "chat", "postLoop", "update", "usage", "returned"}

\* C23: an iteration whose response has k tool calls extends the
\* conversation by exactly 2k messages, for each call in order the response
\* text as assistant and the call's observation as function message tagged
\* with the tool name; an iteration that ends with a final answer or a
\* timeout appends nothing; and all 2k messages are in the input of the next
\* gateway call.
C23_TwoMessagesPerToolCall ==
    /\ \A i \in 2..Len(gwLog) :
         /\ gwLog[i].input = gwLog[i - 1].input \o PairsFrom(i - 1, 1)
         /\ Len(gwLog[i].input)
              = Len(gwLog[i - 1].input) + 2 * Len(gwLog[i - 1].outcome.value.toolCalls[1])
    /\ (BetweenIterations /\ gwLog # << >>) =>
         IF ToolCallFree(Last(gwLog).outcome.value)
         THEN messages = Last(gwLog).input
         ELSE /\ messages = Last(gwLog).input \o PairsFrom(Len(gwLog), 1)
              /\ Len(messages) = Len(Last(gwLog).input)
                                   + 2 * Len(Last(gwLog).outcome.value.toolCalls[1])
    /\ (BetweenIterations /\ gwLog = << >>) => Len(messages) = 2
    /\ (BetweenIterations /\ timeoutAt # 0) => Len(messages) = 2 + 2 * Len(toolLog)

\* C23 witness: the response of iteration 1 had two tool calls and the
\* gateway call of iteration 2 got the four messages
C23_Witness ==
    /\ Len(gwLog) = 2
    /\ Len(gwLog[1].outcome.value.toolCalls[1]) = 2
    /\ Len(gwLog[2].input) = 6
    /\ gwLog[2].input[4].role = "function"
    /\ gwLog[2].input[6].name = gwLog[1].outcome.value.toolCalls[1][2].name

\* the external calls of the execution that are outstanding
Outstanding == (IF pc = "chat" THEN 1 ELSE 0) + (IF pc = "tool" THEN 1 ELSE 0)
\* the observation rows written to the step log
ObservationRows == { n \in 1..Len(dbLogs) : dbLogs[n].step_type = "observation" }

\* C24: at most one external call is outstanding at any time; the tool
\* calls of a response are invoked one at a time in the order the model
\* returned them; when tool call j+1 is invoked the observation of call j
\* has been recorded, logged and appended to the conversation; and when the
\* gateway call of iteration i+1 is made every tool call of the iterations
\* before has completed.
C24_OneCallAtATime ==
    /\ Outstanding <= 1
    /\ \A n \in 1..Len(toolLog) :
         LET t == toolLog[n]
         IN /\ t.iteration \in Responded
            /\ t.name = gwLog[t.iteration].outcome.value.toolCalls[1][t.index].name
            /\ IF n = 1 THEN t.index = 1
               ELSE LET u == toolLog[n - 1]
                    IN \/ t.iteration = u.iteration /\ t.index = u.index + 1
                       \/ /\ t.iteration > u.iteration
                          /\ t.index = 1
                          /\ u.index = Len(gwLog[u.iteration].outcome.value.toolCalls[1])
    /\ pc = "tool" =>
         /\ InvokedIn(iteration) = { n \in 1..Len(toolLog) : n > Len(toolLog) - (tcIdx - 1) }
         /\ Cardinality(InvokedIn(iteration)) = tcIdx - 1
         /\ Cardinality(StepsOfType(steps, "observation")) = Len(toolLog)
         /\ Cardinality(ObservationRows) = Len(toolLog)
         /\ Len(messages) = 2 + 2 * Len(toolLog)
         /\ tcIdx > 1 =>
              messages[Len(messages)] =
                [role |-> "function", name |-> Last(toolLog).name,
                 content |-> ObservationOf(Last(toolLog).outcome)]
    /\ pc = "chat" =>
         /\ Len(gwLog) = iteration - 1
         /\ \A i \in 1..Len(gwLog) :
              Cardinality(InvokedIn(i)) = Len(gwLog[i].outcome.value.toolCalls[1])
         /\ Cardinality(ObservationRows) = Len(toolLog)
         /\ Len(messages) = 2 + 2 * Len(toolLog)

\* C24 witness: the second tool call of a response is outstanding, the first
\* has completed
C24_Witness ==
    /\ pc = "tool"
    /\ tcIdx = 2
    /\ Len(toolLog) = 1
    /\ toolLog[1].index = 1
    /\ Len(messages) = 4

\* the executor invocations made for tool call j of iteration i
InvocationsOf(i, j) ==
    { n \in 1..Len(toolLog) : toolLog[n].iteration = i /\ toolLog[n].index = j }
\* the executor on its own: whatever it is asked, it resolves after at most
\* one backend request
ExecutorAsksOnce ==
    \A name \in ToolNames, args \in ArgValues, be \in BackendBehaviours :
      LET r == ToolExecutorExecute(name, args, be)
      IN r.kind = "return" /\ r.value.requests \in {0, 1}

\* C25: every tool call returned by the model is given to the executor
\* exactly once and gets exactly one observation step, whether it succeeds
\* or fails: no call is ever invoked twice, the calls of every iteration that
\* ran to its end were each invoked once, there are as many observation
\* steps as invocations, and the executor makes at most one backend request
\* per invocation (the executor's part is checked on its whole input domain,
\* once, at the start).
C25_OneInvocationPerToolCall ==
    /\ \A i \in Responded \ FinalResponses :
         \A j \in 1..Len(gwLog[i].outcome.value.toolCalls[1]) :
           /\ Cardinality(InvocationsOf(i, j)) <= 1
           /\ (i < Len(gwLog) \/ BetweenIterations) => Cardinality(InvocationsOf(i, j)) = 1
    /\ Cardinality(StepsOfType(steps, "observation")) = Len(toolLog)
    /\ \A n \in 1..Len(toolLog) :
         /\ steps[3 * n].observation = ObservationOf(toolLog[n].outcome)
         /\ toolLog[n].outcome.kind = "return" => toolLog[n].outcome.value.requests \in {0, 1}
    /\ pc = "insert" => ExecutorAsksOnce

\* C25 witness: two tool calls, the first failed and the second succeeded,
\* each invoked once and each with its observation step
C25_Witness ==
    /\ BetweenIterations
    /\ Len(toolLog) = 2
    /\ FailedOutcome(toolLog[1].outcome)
    /\ ~FailedOutcome(toolLog[2].outcome)
    /\ toolLog[2].outcome.value.requests = 1
    /\ Cardinality(StepsOfType(steps, "observation")) = 2

\* the timeout is decided at the top of an iteration and nowhere else: the
\* status is 'timeout' exactly when a check fired, the iteration whose check
\* fired made no gateway call, and every iteration whose check passed made
\* its gateway call and, unless an exception ended the run, every tool call
\* of its response
CheckedAtTopOnly ==
    /\ status = "timeout" <=> timeoutAt # 0
    /\ timeoutAt # 0 =>
         /\ timeoutAt = iteration
         /\ Len(gwLog) = iteration - 1
         /\ pc \in {"postLoop", "update", "usage", "errUpdate", "returned", "rejected"}
    /\ (timeoutAt = 0 /\ pc \notin {"insert", "loop"} /\ iteration > 0) => GatewayCalls = iteration
    /\ \A i \in Responded \ FinalResponses :
         (caught = NULL /\ (i < iteration \/ ~InToolLoop)) =>
           /\ Cardinality(InvokedIn(i)) = Len(gwLog[i].outcome.value.toolCalls[1])
           /\ \A n \in InvokedIn(i) : steps[3 * n].stepType = "observation"

\* C26: the timeout is checked only at the top of each iteration; once the
\* check of an iteration has passed, its gateway call and every tool call of
\* its response are performed and recorded, and when that response is
\* tool-call-free the execution ends with that response as its answer and
\* not with status 'timeout'.
C26_NoMidIterationPreemption ==
    /\ CheckedAtTopOnly
    /\ (pc = "returned" /\ caught = NULL /\ FinalResponses # {}) =>
         /\ result[1].status # "timeout"
         /\ \A i \in FinalResponses : result[1].output = gwLog[i].outcome.value.content

\* the positions of the messages of ms that are not system messages
NonSystem(ms) == { i \in 1..Len(ms) : ms[i].role # "system" }
\* the position in ms of its k-th message that is not a system message
NthNonSystem(ms, k) ==
    CHOOSE i \in NonSystem(ms) : Cardinality({ j \in NonSystem(ms) : j <= i }) = k

\* C27: on the Anthropic path the turn-message list sent to the provider has
\* no system-role message and has every non-system message with its content,
\* in the original order, assistant messages as assistant and user and
\* tool-result messages as user; the top-level system field is the content of
\* the (first) system message, the empty text when there is none; tool
\* definitions are passed with name, description and input_schema taken from
\* each tool's function name, description and parameters.
C27_AnthropicRequestShape ==
    wire.request # None =>
      LET ms == wire.messages
          r == wire.request[1]
          sys == { i \in 1..Len(ms) : ms[i].role = "system" }
      IN /\ Len(r.messages) = Cardinality(NonSystem(ms))
         /\ \A k \in 1..Len(r.messages) :
              LET m == ms[NthNonSystem(ms, k)]
              IN /\ r.messages[k].role \in {"user", "assistant"}
                 /\ r.messages[k].role = "assistant" <=> m.role = "assistant"
                 /\ r.messages[k].content = m.content
         /\ r.system = IF sys = {} THEN ""
                       ELSE ms[CHOOSE i \in sys : \A j \in sys : i <= j].content
         /\ IF wire.tools = << >> THEN r.tools = UNDEFINED
            ELSE /\ Len(r.tools) = Len(wire.tools)
                 /\ \A i \in 1..Len(wire.tools) :
                      /\ r.tools[i].name = wire.tools[i].function.name
                      /\ r.tools[i].description = wire.tools[i].function.description
                      /\ r.tools[i].input_schema = wire.tools[i].function.parameters

\* C27 witness: a request built from an assistant message, a system message
\* in the middle and a tool result, with two tool definitions
C27_Witness ==
    /\ wire.request # None
    /\ Len(wire.messages) = 3
    /\ wire.messages[1].role = "assistant"
    /\ wire.messages[2] = [role |-> "system", content |-> "a"]
    /\ wire.messages[3] = [role |-> "function", content |-> "b"]
    /\ Len(wire.tools) = 2
    /\ Len(wire.request[1].messages) = 2
    /\ wire.request[1].system = "a"

\* the promise of execute eventually settles, one way or the other
Settles == <>(pc \in {"returned", "rejected"})

\* C28: every execution terminates: when each gateway call, tool call and
\* database write eventually returns or throws, execute eventually returns a
\* result, whatever the model answers, after at most maxIterations gateway
\* calls.
C28_EventuallyReturns ==
    /\ <>(pc = "returned" /\ result # None)
    /\ [](GatewayCalls <= cfg.maxIterations)

\* the step log follows the in-memory step list: it is a prefix of it by
\* step number and kind, at most one step behind, and of the same length in
\* every result whose status is not 'error'
LogFollowsSteps ==
    /\ Len(dbLogs) <= Len(steps)
    /\ Len(steps) - Len(dbLogs) <= 1
    /\ \A n \in 1..Len(dbLogs) :
         /\ dbLogs[n].step_number = steps[n].stepNumber
         /\ dbLogs[n].step_type = steps[n].stepType
    /\ (pc = "returned" /\ result[1].status # "error") => Len(dbLogs) = Len(result[1].steps)

\* C29: at every point the rows written to the step log are a prefix of the
\* in-memory step list, same step number and kind at each position, at most
\* one step behind; in a result with a non-error status both have the same
\* length; and each row carries the payload of its step in the field of its
\* kind: the observation text in the observation field, the tool name and
\* arguments in the action field, the text in the reasoning field.
C29_LogCarriesPayload ==
    /\ LogFollowsSteps
    /\ \A n \in 1..Len(dbLogs) :
         /\ steps[n].stepType = "observation" => dbLogs[n].observation = steps[n].observation
         /\ steps[n].stepType = "action" => dbLogs[n].action = steps[n].action
         /\ steps[n].stepType \in {"reasoning", "final"} =>
              dbLogs[n].reasoning = steps[n].reasoning

\* C30: in every ExecutionResult the error field is set exactly when the
\* status is 'error'; an 'error' result has an empty output, a 'timeout' or
\* 'max_iterations' result has its fixed output string, and a 'success'
\* result has the text of the last gateway response as output and a 'final'
\* step as the last step of its trace.
C30_ResultShape ==
    pc = "returned" =>
      LET r == result[1]
      IN /\ r.error # UNDEFINED <=> r.status = "error"
         /\ r.status = "error" => r.output = "" /\ r.error = caught /\ caught # NULL
         /\ r.status = "timeout" => r.output = TimeoutText
         /\ r.status = "max_iterations" => r.output = MaxIterationsText
         /\ r.status = "success" =>
              /\ gwLog # << >>
              /\ Last(gwLog).outcome.kind = "return"
              /\ r.output = Last(gwLog).outcome.value.content
              /\ r.steps # << >>
              /\ Last(r.steps).stepType = "final"
              /\ Last(r.steps).reasoning = r.output

\* C30 witness: a success result: the first response, before the last allowed
\* iteration, was the answer, which is the output, with the final step last
C30_Witness ==
    /\ pc = "returned"
    /\ result[1].status = "success"
    /\ result[1].output # ""
    /\ Len(gwLog) = 1
    /\ cfg.maxIterations = 2
    /\ Len(result[1].steps) = 1
    /\ result[1].error = UNDEFINED

====
